---------------------------- MODULE Spec2Model ----------------------------
(***************************************************************************)
(* A model of custom_components/hubspace/climate.py: the HubspaceThermostat*)
(* adapter (state projection and command translation) and the platform     *)
(* set-up that registers adapters.                                         *)
(*                                                                         *)
(* Python values are modelled as follows.                                  *)
(*   - str and StrEnum members are strings (HVACMode.COOL is "cool").      *)
(*   - None is the string None, which no domain below contains.            *)
(*   - a dict is the sequence of its <<key, value>> items in insertion     *)
(*     order, so that iteration order and first-match are what Python's    *)
(*     are.                                                                *)
(*   - temperatures and timer values are opaque tokens ("21.0"): the       *)
(*     adapter does no arithmetic on them, it only passes them on and      *)
(*     tests their truthiness (None and 0.0 are falsy).                    *)
(*   - a ClimateEntityFeature bitset is the set of its flags, |= is \cup.  *)
(***************************************************************************)
EXTENDS Naturals, Sequences, FiniteSets

VARIABLES
    resource,             \* HubspaceBaseEntity.resource: the vendor's Thermostat
    resource0,            \* the resource as it was when __init__ ran
    _supported_features,  \* HubspaceThermostat._supported_features
    call,                 \* the last command the platform called
    sent,                 \* the set_state requests that call issued, in order
    items,                \* the resources the ThermostatController holds
    known0,               \* how many it held when async_setup_entry ran
    pc,                   \* async_setup_entry: "start", then "done"
    subscribed,           \* async_add_entity is subscribed to RESOURCE_ADDED
    entities,             \* the adapters registered through async_add_entities
    delivered,            \* RESOURCE_ADDED events delivered to async_add_entity
    raised                \* exceptions async_add_entity raised

vars == <<resource, resource0, _supported_features, call, sent,
          items, known0, pc, subscribed, entities, delivered, raised>>

adapterVars == <<resource, resource0, _supported_features, call, sent>>
setupVars == <<items, known0, pc, subscribed, entities, delivered, raised>>

---------------------------------------------------------------------------
(* Bounds *)

MaxStates == 2
MaxResources == 4
MaxEvents == 3

---------------------------------------------------------------------------
(* Python and Home Assistant values *)

None == "None"

HVACMode_OFF == "off"
HVACMode_HEAT == "heat"
HVACMode_COOL == "cool"
HVACMode_HEAT_COOL == "heat_cool"
HVACMode_FAN_ONLY == "fan_only"
HVACMode_DRY == "dry"

HVACAction_COOLING == "cooling"
HVACAction_HEATING == "heating"
HVACAction_OFF == "off"
HVACAction_FAN == "fan"

FAN_ON == "on"
FAN_OFF == "off"

ATTR_TEMPERATURE == "temperature"
ATTR_TARGET_TEMP_HIGH == "target_temp_high"
ATTR_TARGET_TEMP_LOW == "target_temp_low"
ATTR_HVAC_MODE == "hvac_mode"

TARGET_TEMPERATURE == "TARGET_TEMPERATURE"
TARGET_TEMPERATURE_RANGE == "TARGET_TEMPERATURE_RANGE"
FAN_MODE == "FAN_MODE"

\* bool(x) of an Optional[str]
Truthy(x) == x # None /\ x # ""

\* bool(x) of an Optional[float]
TruthyNumber(x) == x # None /\ x # "0.0"

\* d.get(key, default)
DictGet(d, key, default) ==
    IF \E i \in 1..Len(d) : d[i][1] = key
    THEN d[CHOOSE i \in 1..Len(d) : d[i][1] = key][2]
    ELSE default

\* list(d.values())
DictValues(d) == [i \in 1..Len(d) |-> d[i][2]]

\* kwargs.get(key)
KwargsGet(kwargs, key) == IF key \in DOMAIN kwargs THEN kwargs[key] ELSE None


---------------------------------------------------------------------------
(* HubspaceThermostat.__init__ *)

\* self._fan_speed_mapping
_fan_speed_mapping ==
    << <<"fan-speed-auto", FAN_ON>>,
       <<"fan-speed-2-050", "low">>,
       <<"fan-speed-2-100", "high">> >>

\* self._hvac_mode_mapping
_hvac_mode_mapping ==
    << <<"cool", HVACMode_COOL>>,
       <<"auto-cool", HVACMode_HEAT_COOL>>,
       <<"fan", HVACMode_FAN_ONLY>>,
       <<"off", HVACMode_OFF>> >>

\* self._error_states
_error_states ==
    << <<"indoor-temperature-sensor-failed", "Indoor temperature sensor failed">>,
       <<"water-tray-full", "Water tray full">> >>

\* The feature bitset __init__ assembles from the resource r it is given.
InitSupportedFeatures(r) ==
    (IF TruthyNumber(r.target_temperature) THEN {TARGET_TEMPERATURE} ELSE {})
    \cup (IF r.supports_fan_mode THEN {FAN_MODE} ELSE {})
    \cup (IF r.supports_temperature_range THEN {TARGET_TEMPERATURE_RANGE} ELSE {})

---------------------------------------------------------------------------
(* State projection: the properties, read from the current resource *)

\* The comprehension of extra_state_attributes["error_states"].
RECURSIVE ErrorStatesOf(_)
ErrorStatesOf(states) ==
    IF states = << >> THEN << >>
    ELSE LET state == Head(states)
             rest == ErrorStatesOf(Tail(states))
         IN  IF state.functionClass = "error" /\ state.value = "alerting"
             THEN <<DictGet(_error_states, state.functionInstance, state.value)>>
                  \o rest
             ELSE rest

error_states == ErrorStatesOf(resource.states)

fan_mode_default_missing ==
    DictGet(_fan_speed_mapping, resource.fan_mode.mode, None)

fan_mode == DictGet(_fan_speed_mapping, resource.fan_mode.mode, FAN_OFF)

fan_modes == DictValues(_fan_speed_mapping)

hvac_action_mode_first ==
    LET mapping == << <<"cooling", HVACAction_COOLING>>,
                      <<"heating", HVACAction_HEATING>>,
                      <<"off", HVACAction_OFF>> >>
        mapped == DictGet(mapping, resource.hvac_action, None)
    IN  IF resource.hvac_mode.mode = "fan" THEN HVACAction_FAN
        ELSE IF Truthy(mapped) THEN mapped
        ELSE resource.hvac_action

hvac_action ==
    LET mapping == << <<"cooling", HVACAction_COOLING>>,
                      <<"heating", HVACAction_HEATING>>,
                      <<"off", HVACAction_OFF>> >>
        mapped == DictGet(mapping, resource.hvac_action, None)
    IN  IF Truthy(mapped) THEN mapped
        ELSE IF resource.hvac_mode.mode = "fan" THEN HVACAction_FAN
        ELSE resource.hvac_action

hvac_mode_raw_default ==
    DictGet(_hvac_mode_mapping, resource.hvac_mode.mode, resource.hvac_mode.mode)

hvac_mode == DictGet(_hvac_mode_mapping, resource.hvac_mode.mode, HVACMode_OFF)

hvac_modes == DictValues(_hvac_mode_mapping)

supported_features_recomputed == InitSupportedFeatures(resource)

supported_features == _supported_features

---------------------------------------------------------------------------
(* Command translation and dispatch *)

\* @update_decorator (entity.py): the wrapper awaits the method and hands its
\* result back after its state bookkeeping.
update_decorator(result) == result

\* self.controller.set_state(device_id=self.resource.id, **fields)
set_state(fields) ==
    [k \in {"device_id"} \cup DOMAIN fields |->
        IF k = "device_id" THEN resource.id ELSE fields[k]]

ReverseLookupByKey(mapping, value) ==
    IF \E i \in 1..Len(mapping) : mapping[i][1] = value
    THEN mapping[CHOOSE i \in 1..Len(mapping) : mapping[i][1] = value][1]
    ELSE None

\* next((k for k, v in mapping.items() if v == value), None)
ReverseLookup(mapping, value) ==
    LET hits == {i \in 1..Len(mapping) : mapping[i][2] = value}
    IN  IF hits = {} THEN None
        ELSE mapping[CHOOSE i \in hits : \A j \in hits : i <= j][1]

translate_hvac_mode_to_hubspace(mode) ==
    LET tracked_modes == << <<HVACMode_OFF, "off">>,
                            <<HVACMode_HEAT, "heat">>,
                            <<HVACMode_COOL, "cool">>,
                            <<HVACMode_FAN_ONLY, "fan">>,
                            <<HVACMode_HEAT_COOL, "auto">> >>
    IN  update_decorator(DictGet(tracked_modes, mode, None))

async_set_hvac_mode_tracked(mode) ==
    LET hubspace_mode == translate_hvac_mode_to_hubspace(mode)
    IN  /\ call' = [op |-> "set_hvac_mode", kwargs |-> [hvac_mode |-> mode]]
        /\ sent' = IF Truthy(hubspace_mode)
                   THEN <<set_state([hvac_mode |-> hubspace_mode])>>
                   ELSE << >>
        /\ UNCHANGED <<resource, resource0, _supported_features>>

async_set_hvac_mode(mode) ==
    LET hubspace_mode == ReverseLookup(_hvac_mode_mapping, mode)
    IN  /\ call' = [op |-> "set_hvac_mode", kwargs |-> [hvac_mode |-> mode]]
        /\ sent' = IF Truthy(hubspace_mode)
                   THEN <<set_state([hvac_mode |-> hubspace_mode])>>
                   ELSE << >>
        /\ UNCHANGED <<resource, resource0, _supported_features>>

async_set_fan_mode(mode) ==
    LET hubspace_mode == ReverseLookup(_fan_speed_mapping, mode)
    IN  /\ call' = [op |-> "set_fan_mode", kwargs |-> [fan_mode |-> mode]]
        /\ sent' = IF Truthy(hubspace_mode)
                   THEN <<set_state([fan_mode |-> hubspace_mode])>>
                   ELSE << >>
        /\ UNCHANGED <<resource, resource0, _supported_features>>

async_set_temperature_swapped(kwargs) ==
    /\ call' = [op |-> "set_temperature", kwargs |-> kwargs]
    /\ sent' = <<set_state(
           [target_temperature |-> KwargsGet(kwargs, ATTR_TEMPERATURE),
            target_temperature_auto_cooling |->
                KwargsGet(kwargs, ATTR_TARGET_TEMP_LOW),
            target_temperature_auto_heating |->
                KwargsGet(kwargs, ATTR_TARGET_TEMP_HIGH),
            hvac_mode |-> translate_hvac_mode_to_hubspace(
                KwargsGet(kwargs, ATTR_HVAC_MODE))])>>
    /\ UNCHANGED <<resource, resource0, _supported_features>>

async_set_temperature(kwargs) ==
    /\ call' = [op |-> "set_temperature", kwargs |-> kwargs]
    /\ sent' = <<set_state(
           [target_temperature |-> KwargsGet(kwargs, ATTR_TEMPERATURE),
            target_temperature_auto_cooling |->
                KwargsGet(kwargs, ATTR_TARGET_TEMP_HIGH),
            target_temperature_auto_heating |->
                KwargsGet(kwargs, ATTR_TARGET_TEMP_LOW),
            hvac_mode |-> translate_hvac_mode_to_hubspace(
                KwargsGet(kwargs, ATTR_HVAC_MODE))])>>
    /\ UNCHANGED <<resource, resource0, _supported_features>>

async_set_sleep_mode(sleep_mode) ==
    /\ call' = [op |-> "set_sleep_mode", kwargs |-> [sleep_mode |-> sleep_mode]]
    /\ sent' = <<set_state([sleep_mode |-> sleep_mode])>>
    /\ UNCHANGED <<resource, resource0, _supported_features>>

async_set_timer(timer) ==
    /\ call' = [op |-> "set_timer", kwargs |-> [timer |-> timer]]
    /\ sent' = <<set_state([timer |-> timer])>>
    /\ UNCHANGED <<resource, resource0, _supported_features>>

---------------------------------------------------------------------------
(* The vendor side: the values a Thermostat resource takes, and the update  *)
(* channel through which the vendor's client changes the resource in place  *)

RawHvacCodes == {"cool", "auto-cool", "fan", "off", "auto", "heat"}
RawFanCodes == {"fan-speed-auto", "fan-speed-2-050", "fan-speed-2-100",
                "fan-speed-2-075"}
RawActions == {None, "cooling", "heating", "off", "idle"}
TargetTemperatures == {None, "0.0", "21.0"}
FunctionStates ==
    {[functionClass |-> "error", functionInstance |-> "water-tray-full",
      value |-> "alerting"],
     [functionClass |-> "error", functionInstance |-> "compressor-failed",
      value |-> "alerting"],
     [functionClass |-> "error",
      functionInstance |-> "indoor-temperature-sensor-failed",
      value |-> "normal"],
     [functionClass |-> "sleep", functionInstance |-> None, value |-> "on"]}

\* Sequences over S of length at most n.
SeqUpTo(S, n) == UNION {[1..k -> S] : k \in 0..n}

\* The arguments the platform calls the commands with.
AbstractModes == {HVACMode_OFF, HVACMode_HEAT, HVACMode_COOL,
                  HVACMode_HEAT_COOL, HVACMode_FAN_ONLY, HVACMode_DRY}
AbstractFanModes == {FAN_ON, FAN_OFF, "low", "medium", "high"}
KwargValues(k) ==
    CASE k = ATTR_TEMPERATURE -> {"21.0"}
      [] k = ATTR_TARGET_TEMP_HIGH -> {"24.0"}
      [] k = ATTR_TARGET_TEMP_LOW -> {"18.0"}
      [] k = ATTR_HVAC_MODE -> AbstractModes
TemperatureKwargs ==
    UNION {{kw \in [D -> AbstractModes \cup {"18.0", "21.0", "24.0"}] :
               \A k \in D : kw[k] \in KwargValues(k)} :
           D \in SUBSET {ATTR_TEMPERATURE, ATTR_TARGET_TEMP_HIGH,
                         ATTR_TARGET_TEMP_LOW, ATTR_HVAC_MODE}}

NoKwargs == [k \in {} |-> None]

Thermostat(mode, action, fan, target, supportsFan, supportsRange, states) ==
    [id |-> "thermostat-1",
     hvac_mode |-> [mode |-> mode],
     hvac_action |-> action,
     fan_mode |-> [mode |-> fan],
     target_temperature |-> target,
     supports_fan_mode |-> supportsFan,
     supports_temperature_range |-> supportsRange,
     states |-> states]

\* The vendor reports a change of the resource's capabilities.
CapabilitiesUpdated ==
    /\ \E t \in TargetTemperatures, f \in BOOLEAN, g \in BOOLEAN :
           /\ resource' = [resource EXCEPT !.target_temperature = t,
                                           !.supports_fan_mode = f,
                                           !.supports_temperature_range = g]
           /\ resource' # resource
    /\ UNCHANGED <<resource0, _supported_features, call, sent>>

\* The device takes the last request: the resource is updated with the
\* vendor codes the request carries; a field that is absent or None is ignored.
RequestApplied ==
    /\ sent # << >>
    /\ LET req == sent[Len(sent)]
           has(k) == k \in DOMAIN req /\ req[k] # None
       IN  resource' =
               [resource EXCEPT
                   !.hvac_mode.mode = IF has("hvac_mode") THEN req["hvac_mode"] ELSE @,
                   !.fan_mode.mode = IF has("fan_mode") THEN req["fan_mode"] ELSE @,
                   !.target_temperature =
                       IF has("target_temperature") THEN req["target_temperature"]
                       ELSE @]
    /\ resource' # resource
    /\ UNCHANGED <<resource0, _supported_features, call, sent>>

HvacModeUpdated ==
    /\ \E c \in RawHvacCodes : resource' = [resource EXCEPT !.hvac_mode.mode = c]
    /\ resource' # resource
    /\ UNCHANGED <<resource0, _supported_features, call, sent>>

HvacActionUpdated ==
    /\ \E a \in RawActions : resource' = [resource EXCEPT !.hvac_action = a]
    /\ resource' # resource
    /\ UNCHANGED <<resource0, _supported_features, call, sent>>

FanModeUpdated ==
    /\ \E c \in RawFanCodes : resource' = [resource EXCEPT !.fan_mode.mode = c]
    /\ resource' # resource
    /\ UNCHANGED <<resource0, _supported_features, call, sent>>

StatesUpdated ==
    /\ \E ss \in SeqUpTo(FunctionStates, MaxStates) :
           resource' = [resource EXCEPT !.states = ss]
    /\ resource' # resource
    /\ UNCHANGED <<resource0, _supported_features, call, sent>>

---------------------------------------------------------------------------
(* The adapter of one resource: construction, then commands and updates *)

SetupIdle ==
    /\ items = {}
    /\ known0 = 0
    /\ pc = "start"
    /\ subscribed = FALSE
    /\ entities = << >>
    /\ delivered = 0
    /\ raised = 0

\* HubspaceThermostat(bridge, controller, r)
Constructed(r) ==
    /\ resource = r
    /\ resource0 = r
    /\ _supported_features = InitSupportedFeatures(r)
    /\ call = [op |-> "none", kwargs |-> NoKwargs]
    /\ sent = << >>

Init ==
    /\ \E t \in TargetTemperatures, f \in BOOLEAN, g \in BOOLEAN :
           Constructed(Thermostat("off", None, "fan-speed-auto", t, f, g, << >>))
    /\ SetupIdle

Next ==
    \/ \E mode \in AbstractModes :
           async_set_hvac_mode(mode) /\ UNCHANGED setupVars
    \/ \E mode \in AbstractFanModes :
           async_set_fan_mode(mode) /\ UNCHANGED setupVars
    \/ \E kwargs \in TemperatureKwargs :
           async_set_temperature(kwargs) /\ UNCHANGED setupVars
    \/ \E sleep_mode \in {"on", "off"} :
           async_set_sleep_mode(sleep_mode) /\ UNCHANGED setupVars
    \/ \E timer \in {"0", "30"} :
           async_set_timer(timer) /\ UNCHANGED setupVars
    \/ CapabilitiesUpdated /\ UNCHANGED setupVars

Spec == Init /\ [][Next]_vars

---------------------------------------------------------------------------
(* Commands whose requests the device takes: the resource is then updated   *)
(* with the codes the adapter sent                                          *)

InitRoundTrip ==
    /\ Constructed(Thermostat("off", None, "fan-speed-auto", "21.0",
                              TRUE, TRUE, << >>))
    /\ SetupIdle

NextRoundTrip ==
    \/ \E mode \in AbstractModes :
           async_set_hvac_mode(mode) /\ UNCHANGED setupVars
    \/ \E mode \in AbstractFanModes :
           async_set_fan_mode(mode) /\ UNCHANGED setupVars
    \/ \E kwargs \in TemperatureKwargs :
           async_set_temperature(kwargs) /\ UNCHANGED setupVars
    \/ \E sleep_mode \in {"on", "off"} :
           async_set_sleep_mode(sleep_mode) /\ UNCHANGED setupVars
    \/ \E timer \in {"0", "30"} :
           async_set_timer(timer) /\ UNCHANGED setupVars
    \/ RequestApplied /\ UNCHANGED setupVars

SpecRoundTrip == InitRoundTrip /\ [][NextRoundTrip]_vars

---------------------------------------------------------------------------
(* The state projection over every resource snapshot *)

InitProjection ==
    /\ Constructed(Thermostat("off", None, "fan-speed-auto", "21.0",
                              TRUE, FALSE, << >>))
    /\ SetupIdle

NextProjection ==
    \/ HvacModeUpdated /\ UNCHANGED setupVars
    \/ HvacActionUpdated /\ UNCHANGED setupVars
    \/ FanModeUpdated /\ UNCHANGED setupVars
    \/ StatesUpdated /\ UNCHANGED setupVars

SpecProjection == InitProjection /\ [][NextProjection]_vars

---------------------------------------------------------------------------
(* Discovery and registration: async_setup_entry and its listener *)

ResourceIds == 1..MaxResources

\* A set of resource identifiers as the sequence the controller iterates.
RECURSIVE InOrder(_)
InOrder(S) ==
    IF S = {} THEN << >>
    ELSE LET least == CHOOSE x \in S : \A y \in S : x <= y
         IN  <<least>> \o InOrder(S \ {least})

\* make_entity(r): partial(HubspaceThermostat, bridge, controller)(r)
make_entity(r) == [resource |-> r]

\* The listener. Its first statement reads the name self, which the enclosing
\* async_setup_entry (a module-level function) does not bind: NameError, and
\* the statement that registers the entity is not reached.
async_add_entity(r) ==
    /\ raised' = raised + 1
    /\ entities' = entities

\* The body of async_setup_entry: register the known resources in bulk, then
\* subscribe the listener to RESOURCE_ADDED.
async_setup_entry ==
    /\ pc = "start"
    /\ entities' = entities \o [i \in 1..Cardinality(items) |->
                                   make_entity(InOrder(items)[i])]
    /\ known0' = Cardinality(items)
    /\ subscribed' = TRUE
    /\ pc' = "done"
    /\ UNCHANGED <<items, delivered, raised>>

\* The vendor controller learns of a resource; a subscribed listener is called.
ResourceAdded ==
    /\ delivered < MaxEvents
    /\ \E r \in ResourceIds \ items :
           /\ items' = items \cup {r}
           /\ IF subscribed
              THEN delivered' = delivered + 1 /\ async_add_entity(r)
              ELSE UNCHANGED <<delivered, raised, entities>>
    /\ UNCHANGED <<known0, pc, subscribed>>

\* config_entry.async_on_unload: the platform releases the subscription.
Unloaded ==
    /\ pc = "done"
    /\ pc' = "unloaded"
    /\ subscribed' = FALSE
    /\ UNCHANGED <<items, known0, entities, delivered, raised>>

InitSetup ==
    /\ Constructed(Thermostat("off", None, "fan-speed-auto", "21.0",
                              TRUE, TRUE, << >>))
    /\ SetupIdle

NextSetup ==
    \/ async_setup_entry /\ UNCHANGED adapterVars
    \/ ResourceAdded /\ UNCHANGED adapterVars
    \/ Unloaded /\ UNCHANGED adapterVars

SpecSetup == InitSetup /\ [][NextSetup]_vars

---------------------------------------------------------------------------
(* Properties *)

Range(seq) == {seq[i] : i \in 1..Len(seq)}

\* C1: hvac_mode returns the abstract mode the HVAC table assigns to the
\* resource's raw code (cool, auto-cool, fan, off), the "off" mode for every
\* other code, and always a member of hvac_modes.
C1_HvacModeOfCode ==
    LET code == resource.hvac_mode.mode
    IN  /\ code = "cool" => hvac_mode = "cool"
        /\ code = "auto-cool" => hvac_mode = "heat_cool"
        /\ code = "fan" => hvac_mode = "fan_only"
        /\ code = "off" => hvac_mode = "off"
        /\ code \notin {"cool", "auto-cool", "fan", "off"} => hvac_mode = "off"
        /\ hvac_mode \in Range(hvac_modes)

\* C1 witness: a code that is no key of the table ("heat") reads as "off".
C1_UnknownCodeReadsOff ==
    /\ resource.hvac_mode.mode = "heat"
    /\ hvac_mode = "off"

\* C2: set_hvac_mode(mode) and set_fan_mode(mode) issue exactly one request,
\* carrying the first vendor code in table order whose table value is the
\* requested one, and no request at all when no code maps to it.
C2_ReverseLookupDispatch ==
    LET Dispatched(mapping, field, mode) ==
            LET hits == {i \in 1..Len(mapping) : mapping[i][2] = mode}
            IN  IF hits = {} THEN sent = << >>
                ELSE /\ Len(sent) = 1
                     /\ DOMAIN sent[1] = {"device_id", field}
                     /\ sent[1]["device_id"] = resource.id
                     /\ \E i \in hits :
                            /\ sent[1][field] = mapping[i][1]
                            /\ \A j \in hits : i <= j
    IN  /\ call.op = "set_hvac_mode" =>
               Dispatched(_hvac_mode_mapping, "hvac_mode", call.kwargs["hvac_mode"])
        /\ call.op = "set_fan_mode" =>
               Dispatched(_fan_speed_mapping, "fan_mode", call.kwargs["fan_mode"])
        /\ (call.op = "set_hvac_mode" /\ call.kwargs["hvac_mode"] = "cool") =>
               sent = <<[device_id |-> resource.id, hvac_mode |-> "cool"]>>
        /\ (call.op = "set_hvac_mode"
                /\ call.kwargs["hvac_mode"] \in {"heat", "dry"}) => sent = << >>

\* C2 witness: set_hvac_mode("heat"), a mode no vendor code maps to, was
\* called and sent nothing.
C2_UnmappedModeSendsNothing ==
    /\ call.op = "set_hvac_mode"
    /\ call.kwargs["hvac_mode"] = "heat"
    /\ sent = << >>

\* C3: for every mode m of hvac_modes, set_hvac_mode(m) issues a request, and
\* once the resource holds the vendor code of that request hvac_mode is m.
C3_HvacModeRoundTrip ==
    (call.op = "set_hvac_mode" /\ call.kwargs["hvac_mode"] \in Range(hvac_modes)) =>
        /\ Len(sent) = 1
        /\ "hvac_mode" \in DOMAIN sent[1]
        /\ resource.hvac_mode.mode = sent[1]["hvac_mode"] =>
               hvac_mode = call.kwargs["hvac_mode"]

\* C3 witness: set_hvac_mode("heat_cool") was called, the device took the
\* request and the resource now holds its code; hvac_mode reads "heat_cool".
C3_HeatCoolComesBack ==
    /\ call.op = "set_hvac_mode"
    /\ call.kwargs["hvac_mode"] = "heat_cool"
    /\ Len(sent) = 1
    /\ resource.hvac_mode.mode = "auto-cool"
    /\ resource.hvac_mode.mode = sent[1]["hvac_mode"]
    /\ hvac_mode = "heat_cool"

\* C4: hvac_action is the directly mapped action when the raw action is
\* "cooling", "heating" or "off", whatever the HVAC mode; otherwise "fan" when
\* the raw HVAC mode is "fan"; otherwise the raw action unchanged.
C4_HvacActionTiers ==
    LET raw == resource.hvac_action
        direct == raw \in {"cooling", "heating", "off"}
    IN  /\ raw = "cooling" => hvac_action = "cooling"
        /\ raw = "heating" => hvac_action = "heating"
        /\ raw = "off" => hvac_action = "off"
        /\ (~direct /\ resource.hvac_mode.mode = "fan") => hvac_action = "fan"
        /\ (~direct /\ resource.hvac_mode.mode # "fan") => hvac_action = raw

\* C4 witness: the raw action "cooling" while the raw HVAC mode is "fan": the
\* direct mapping wins.
C4_DirectMappingInFanMode ==
    /\ resource.hvac_action = "cooling"
    /\ resource.hvac_mode.mode = "fan"
    /\ hvac_action = "cooling"

\* What C5 says error_states holds: for each alerting error entry, in order,
\* the table's string for its error code, or the error code itself.
RECURSIVE ClaimedErrorStates(_)
ClaimedErrorStates(states) ==
    IF states = << >> THEN << >>
    ELSE LET state == Head(states)
             code == state.functionInstance
             shown == CASE code = "water-tray-full" -> "Water tray full"
                        [] code = "indoor-temperature-sensor-failed" ->
                               "Indoor temperature sensor failed"
                        [] OTHER -> code
         IN  (IF state.functionClass = "error" /\ state.value = "alerting"
              THEN <<shown>> ELSE << >>)
             \o ClaimedErrorStates(Tail(states))

\* C5: error_states holds exactly one entry per function-state entry of class
\* "error" and value "alerting": the error table's string for the entry's
\* error code, and the raw error code when the table has no string for it.
C5_ErrorStatesFallBackToCode ==
    error_states = ClaimedErrorStates(resource.states)

\* C6: set_temperature issues exactly one request whatever arguments are
\* supplied; temperature, high bound and low bound are carried in
\* target_temperature, target_temperature_auto_cooling and
\* target_temperature_auto_heating, and every field not supplied is None.
C6_SetTemperatureOneRequest ==
    call.op = "set_temperature" =>
        LET kw == call.kwargs
            Given(k) == IF k \in DOMAIN kw THEN kw[k] ELSE "None"
        IN  /\ Len(sent) = 1
            /\ DOMAIN sent[1] =
                   {"device_id", "target_temperature",
                    "target_temperature_auto_cooling",
                    "target_temperature_auto_heating", "hvac_mode"}
            /\ sent[1]["device_id"] = resource.id
            /\ sent[1]["target_temperature"] = Given("temperature")
            /\ sent[1]["target_temperature_auto_cooling"] = Given("target_temp_high")
            /\ sent[1]["target_temperature_auto_heating"] = Given("target_temp_low")
            /\ "hvac_mode" \notin DOMAIN kw => sent[1]["hvac_mode"] = "None"

\* C6 witness: set_temperature(temperature=21) sent target_temperature=21 and
\* the three other fields empty.
C6_OnlyTemperatureSupplied ==
    /\ call.op = "set_temperature"
    /\ DOMAIN call.kwargs = {"temperature"}
    /\ Len(sent) = 1
    /\ sent[1]["target_temperature"] = "21.0"
    /\ sent[1]["target_temperature_auto_cooling"] = "None"
    /\ sent[1]["target_temperature_auto_heating"] = "None"
    /\ sent[1]["hvac_mode"] = "None"

\* C7: once the platform is set up, the registered adapters are one per
\* resource the controller knew at set-up plus one per "resource added" event
\* delivered to the listener since.
C7_OneAdapterPerEvent ==
    pc # "start" => Len(entities) = known0 + delivered

\* C8: fan_mode is the fan table's label of the raw fan code, "off" for a code
\* the table does not hold; fan_modes is the table's labels in table order,
\* whatever the raw fan code is.
C8_FanModeOfCode ==
    LET code == resource.fan_mode.mode
    IN  /\ code = "fan-speed-auto" => fan_mode = "on"
        /\ code = "fan-speed-2-050" => fan_mode = "low"
        /\ code = "fan-speed-2-100" => fan_mode = "high"
        /\ code \notin {"fan-speed-auto", "fan-speed-2-050", "fan-speed-2-100"} =>
               fan_mode = "off"
        /\ fan_modes = <<"on", "low", "high">>

\* C8 witness: the unrecognized code "fan-speed-2-075" reads as "off" while
\* fan_modes still lists every label.
C8_UnknownFanCodeReadsOff ==
    /\ resource.fan_mode.mode = "fan-speed-2-075"
    /\ fan_mode = "off"
    /\ Len(fan_modes) = 3

\* C9: supported_features is the bitset assembled from the three capability
\* flags of the resource as it was at construction, after any resource
\* updates and command calls.
C9_FeaturesFixedAtConstruction ==
    /\ (TARGET_TEMPERATURE \in supported_features) <=>
           (resource0.target_temperature \notin {"None", "0.0"})
    /\ (FAN_MODE \in supported_features) <=> resource0.supports_fan_mode
    /\ (TARGET_TEMPERATURE_RANGE \in supported_features) <=>
           resource0.supports_temperature_range
    /\ supported_features \subseteq
           {TARGET_TEMPERATURE, FAN_MODE, TARGET_TEMPERATURE_RANGE}

\* C9 witness: the resource lost its fan-mode support and its target
\* temperature after construction and a command was called; FAN_MODE and
\* TARGET_TEMPERATURE are still reported.
C9_StaleAfterCapabilityChange ==
    /\ resource0.supports_fan_mode
    /\ ~resource.supports_fan_mode
    /\ resource0.target_temperature = "21.0"
    /\ resource.target_temperature = "None"
    /\ call.op = "set_fan_mode"
    /\ {FAN_MODE, TARGET_TEMPERATURE} \subseteq supported_features

\* C10: for every mode m of hvac_modes, set_temperature(hvac_mode=m) puts in
\* its request the vendor code set_hvac_mode(m) sends, so that a resource
\* updated with the code sent reads back as m.
C10_TranslationsAgree ==
    (call.op = "set_temperature"
        /\ "hvac_mode" \in DOMAIN call.kwargs
        /\ call.kwargs["hvac_mode"] \in Range(hvac_modes)) =>
        LET m == call.kwargs["hvac_mode"]
        IN  /\ Len(sent) = 1
            /\ \E i \in 1..Len(_hvac_mode_mapping) :
                   /\ _hvac_mode_mapping[i][2] = m
                   /\ sent[1]["hvac_mode"] = _hvac_mode_mapping[i][1]
            /\ resource.hvac_mode.mode = sent[1]["hvac_mode"] => hvac_mode = m

=============================================================================
